---- MODULE Spec2Model ----
(***************************************************************************)
(* Training orchestration of the CAD AI service: the job record store,     *)
(* the train_cad_model Celery task, the trainer's epoch loop, the progress *)
(* update tasks the progress callback schedules on the task's event loop,  *)
(* the progress cache, and the cancel endpoint with its background task.   *)
(*                                                                         *)
(* One training job (JobId) over one dataset (DatasetId).  Each delivery of *)
(* the job's Celery message to a worker is one execution of                *)
(* train_cad_model_task.  Under Spec the broker delivers the message once; *)
(* under SpecRedelivery it delivers it up to MaxDeliveries times (a task   *)
(* runner that submits at least once).  SpecProgress is Spec with one      *)
(* cancel request and a cache whose entries expire; SpecPoll adds clients  *)
(* that poll GET /jobs/{id}/progress; SpecDataset runs a job on any small  *)
(* dataset, without cancel requests or faults; SpecTrainer runs a job of   *)
(* MaxTrainerEpochs epochs whose losses may be nan and whose training may  *)
(* raise; SpecFiles is the dataset's create, add-files and remove-files    *)
(* requests followed by a job that splits the dataset; SpecDefault is the  *)
(* model registry with concurrent set-default requests; SpecLive is a run  *)
(* that the worker executes to its end, with a cancel request but without  *)
(* termination or refused writes; SpecDelete is a run with a client that   *)
(* deletes the job.                                                        *)
(*                                                                         *)
(* Nullable columns are options: Null is <<>>, a present value v is <<v>>. *)
(* Timestamps are abstracted to the writer that stamped them.              *)
(***************************************************************************)
EXTENDS Integers, Sequences, FiniteSets, TLC

MaxDeliveries == 2   \* deliveries of the job's Celery message under SpecRedelivery
MaxCancels == 2      \* POST /jobs/{id}/cancel requests under Spec
MaxEpochs == 2       \* largest training_config["epochs"] of a request
MaxPollEpochs == 1   \* training_config["epochs"] of the request under SpecPoll
MaxFiles == 10       \* most files of a dataset
MaxUnlabelled == 1   \* most files of a dataset without a label under SpecDataset
MaxTrainerEpochs == 3 \* training_config["epochs"] of the request under SpecTrainer
MaxRequestFiles == 2 \* most file ids in a dataset request under SpecFiles
MaxRequestIds == 2   \* distinct file ids the dataset requests name under SpecFiles
MaxModels == 2       \* AIModel rows created under SpecDefault
MaxDefaultCalls == 2 \* POST /models/{id}/set-default requests under SpecDefault

JobId == "J1"
DatasetId == "D1"
TaskId == "T1"

Runs == 1..MaxDeliveries
Cancels == 1..MaxCancels
ModelIds == 1..MaxModels
DefaultCalls == 1..MaxDefaultCalls

Null == <<>>
Some(v) == <<v>>

Terminal == {"completed", "failed", "cancelled"}

VARIABLES
  jobs,       \* job record store: job id -> TrainingJob row
  datasets,   \* dataset store: dataset id -> Dataset row
  models,     \* model store: set of AIModel rows
  cache,      \* progress cache: key (job id) -> cached payload
  api,        \* position of the create_training_job request handler
  training_config, \* training_config of the request, carried by the message
  deliveries, \* how many times the broker delivers the job's message
  cancels,    \* how many cancel requests the clients send
  val_losses, \* the validation losses an epoch of the job can measure
  task,       \* the job's Celery message: submitted, revoked
  pc,         \* position of each delivery of train_cad_model_task
  dataset_config, \* dataset_config of each delivery (a local of _train_model)
  trainer,    \* CADModelTrainer state of each delivery
  progress,   \* progress update tasks scheduled on each delivery's event loop
  err,        \* the exception a delivery caught (its str(e))
  result,     \* the value each delivery returned
  cancel,     \* each cancel request: its position and the job status it read
  response,   \* the response of GET /jobs/{id}/progress on its way to the client
  default_calls, \* each set-default request: its position and its open transaction
  delete_call \* the DELETE /jobs/{id} request: its position

vars == <<jobs, datasets, models, cache, api, training_config, deliveries,
          cancels, val_losses, task, pc, dataset_config, trainer, progress, err, result, cancel,
          response, default_calls, delete_call>>

\* What no action changes: the request's configuration, the broker's delivery
\* count, the number of cancel requests and the losses the data can produce.
env == <<training_config, deliveries, cancels, val_losses>>

(***************************************************************************)
(* Job record store                                                        *)
(***************************************************************************)

\* UPDATE training_jobs SET ... WHERE id = :id (no row: nothing happens).
UpdateJob(store, id, values) ==
  IF id \in DOMAIN store
  THEN [store EXCEPT ![id] = values @@ @]
  ELSE store

\* A row inserted without total_epochs (left at 0).
NewTrainingJob_TotalEpochsUnset(config) ==
  [ status               |-> "queued",
    dataset_id           |-> DatasetId,
    celery_task_id       |-> Null,
    current_epoch        |-> 0,
    total_epochs         |-> 0,
    progress_percentage  |-> 0,
    training_loss        |-> Null,
    validation_loss      |-> Null,
    accuracy             |-> Null,
    precision            |-> Null,
    recall               |-> Null,
    f1_score             |-> Null,
    started_at           |-> Null,
    estimated_completion |-> Null,
    completed_at         |-> Null,
    model_path           |-> Null,
    error_message        |-> Null ]

\* TrainingService.create_training_job: the row as inserted.
NewTrainingJob(config) ==
  [ status               |-> "queued",
    dataset_id           |-> DatasetId,
    celery_task_id       |-> Null,
    current_epoch        |-> 0,
    total_epochs         |-> config.epochs,
    progress_percentage  |-> 0,
    training_loss        |-> Null,
    validation_loss      |-> Null,
    accuracy             |-> Null,
    precision            |-> Null,
    recall               |-> Null,
    f1_score             |-> Null,
    started_at           |-> Null,
    estimated_completion |-> Null,
    completed_at         |-> Null,
    model_path           |-> Null,
    error_message        |-> Null ]

\* _update_training_job_status: the values of the UPDATE.  celery_task_id and
\* error_message are written only when truthy (not None, not "").
StatusUpdateData(status, celery_task_id, error_message, now) ==
  [ status |-> status ]
  @@ (IF celery_task_id # Null
      THEN [ celery_task_id |-> celery_task_id ] ELSE <<>>)
  @@ (IF status = "running"
      THEN [ started_at |-> Some(now), estimated_completion |-> Some(now) ]
      ELSE IF status \in Terminal
      THEN [ completed_at |-> Some(now) ]
      ELSE <<>>)
  @@ (IF error_message # Null /\ error_message # Some("")
      THEN [ error_message |-> error_message ] ELSE <<>>)

_update_training_job_status(store, id, status, celery_task_id, error_message, now) ==
  UpdateJob(store, id, StatusUpdateData(status, celery_task_id, error_message, now))

\* _update_training_job_completion: the values of the UPDATE (training_results
\* of CADModelTrainer.train).
CompletionUpdateData(training_results, now) ==
  [ status              |-> "completed",
    completed_at        |-> Some(now),
    model_path          |-> Some(training_results.model_path),
    training_loss       |-> Some(training_results.final_train_loss),
    validation_loss     |-> Some(training_results.final_val_loss),
    accuracy            |-> Some(training_results.final_val_acc),
    precision           |-> Some(training_results.detailed_metrics),
    recall              |-> Some(training_results.detailed_metrics),
    f1_score            |-> Some(training_results.detailed_metrics),
    progress_percentage |-> 100 ]

_update_training_job_completion(store, id, training_results, now) ==
  UpdateJob(store, id, CompletionUpdateData(training_results, now))

\* An update that also stamps the job as running, with a new estimate.
ProgressUpdateData_Restamps(progress_data) ==
  [ current_epoch        |-> IF "epoch" \in DOMAIN progress_data THEN progress_data.epoch ELSE 0,
    progress_percentage  |-> 0,
    status               |-> "running",
    estimated_completion |-> Some(progress_data.epoch) ]

\* _update_training_progress, database part: progress_data.get(key) is None
\* for a key the notification does not carry, .get(key, 0) is 0.
ProgressUpdateData(progress_data) ==
  LET has(k) == k \in DOMAIN progress_data
      get(k) == IF has(k) THEN Some(progress_data[k]) ELSE Null
  IN  [ current_epoch       |-> IF has("epoch") THEN progress_data.epoch ELSE 0,
        progress_percentage |-> IF has("progress") THEN progress_data.progress ELSE 0,
        training_loss       |-> get("train_loss"),
        validation_loss     |-> get("val_loss"),
        accuracy            |-> get("val_acc") ]
      @@ (IF has("detailed_metrics")
          THEN [ precision |-> Some(progress_data.detailed_metrics),
                 recall    |-> Some(progress_data.detailed_metrics),
                 f1_score  |-> Some(progress_data.detailed_metrics) ]
          ELSE <<>>)

_update_training_progress(store, id, progress_data) ==
  UpdateJob(store, id, ProgressUpdateData(progress_data))

(***************************************************************************)
(* Progress cache                                                          *)
(***************************************************************************)

\* cache_set: SETEX key expire value, whatever the key held before.
cache_set(c, key, value) ==
  [k \in DOMAIN c \cup {key} |-> IF k = key THEN value ELSE c[k]]

\* cache_get: the value, or None for a key that is absent or expired.
cache_get(c, key) == IF key \in DOMAIN c THEN Some(c[key]) ELSE Null

CancelMarker == [ status |-> "cancelled" ]

(***************************************************************************)
(* Datasets                                                                *)
(***************************************************************************)

FileIds == 1 .. MaxFiles
Classes == {0, 1}

Range(s) == {s[i] : i \in DOMAIN s}

\* str(label) of a class label.
str(label) == IF label = 0 THEN "0" ELSE "1"

\* The label distribution as the service computes it: one count per entry of
\* file_ids that has a label, keyed by str(label).
LabelDistribution(file_ids, labels) ==
  LET labelled == { i \in DOMAIN file_ids : file_ids[i] \in DOMAIN labels }
  IN  [ key \in { str(labels[file_ids[i]]) : i \in labelled } |->
          Cardinality({ i \in labelled : str(labels[file_ids[i]]) = key }) ]

\* DatasetService.create_dataset: the row as inserted.
NewDataset(file_ids, labels) ==
  [ status             |-> "ready",
    file_ids           |-> file_ids,
    file_count         |-> Len(file_ids),
    labels             |-> labels,
    label_distribution |-> LabelDistribution(file_ids, labels) ]

\* list(set(ids)): the distinct ids in the iteration order of a set of str,
\* which depends on the process's hash seed: any order.
ListOfSet(ids) ==
  { l \in [1 .. Cardinality(Range(ids)) -> Range(ids)] : Range(l) = Range(ids) }

\* add_files_to_dataset: the values of the UPDATE, for the order list(set())
\* produced.
AddFilesUpdateData(dataset, file_ids, labels, updated_file_ids) ==
  LET updated_labels == labels @@ dataset.labels
  IN  [ file_ids           |-> updated_file_ids,
        file_count         |-> Len(updated_file_ids),
        labels             |-> updated_labels,
        label_distribution |-> LabelDistribution(updated_file_ids, updated_labels) ]

\* remove_files_from_dataset: the values of the UPDATE.
RemoveFilesUpdateData(dataset, file_ids) ==
  LET updated_file_ids == SelectSeq(dataset.file_ids, LAMBDA fid : fid \notin Range(file_ids))
      updated_labels == [fid \in DOMAIN dataset.labels \ Range(file_ids) |-> dataset.labels[fid]]
  IN  [ file_ids           |-> updated_file_ids,
        file_count         |-> Len(updated_file_ids),
        labels             |-> updated_labels,
        label_distribution |-> LabelDistribution(updated_file_ids, updated_labels) ]

\* {fid: labels[fid] for fid in files if fid in labels}
FilterLabels(labels, files) == [fid \in Range(files) \cap DOMAIN labels |-> labels[fid]]

\* A split whose index is rounded to the nearest integer.
_prepare_dataset_config_Rounded(dataset) ==
  LET file_ids    == dataset.file_ids
      labels      == dataset.labels
      split_index == (Len(file_ids) * 8 + 5) \div 10
      train_files == SubSeq(file_ids, 1, split_index)
      val_files   == SubSeq(file_ids, split_index + 1, Len(file_ids))
  IN  [ train_files  |-> train_files,
        val_files    |-> val_files,
        train_labels |-> FilterLabels(labels, train_files),
        val_labels   |-> FilterLabels(labels, val_files) ]

\* _prepare_dataset_config: the 80/20 split in stored order.  int(n * 0.8) is
\* the floor of 8n/10.
_prepare_dataset_config(dataset) ==
  LET file_ids    == dataset.file_ids
      labels      == dataset.labels
      split_index == (Len(file_ids) * 8) \div 10
      train_files == SubSeq(file_ids, 1, split_index)
      val_files   == SubSeq(file_ids, split_index + 1, Len(file_ids))
  IN  [ train_files  |-> train_files,
        val_files    |-> val_files,
        train_labels |-> FilterLabels(labels, train_files),
        val_labels   |-> FilterLabels(labels, val_files) ]

\* CADDataset.__init__: valid_files, the files that have a label.
CADDataset(file_ids, labels) ==
  SelectSeq(file_ids, LAMBDA fid : fid \in DOMAIN labels)

BatchSize == 32

\* len(DataLoader(dataset, batch_size)): the number of batches of an epoch.
DataLoaderLen(dataset) == (Len(dataset) + BatchSize - 1) \div BatchSize

\* prepare_data: the number of batches of the two loaders.
TrainBatches(config) == DataLoaderLen(CADDataset(config.train_files, config.train_labels))
ValBatches(config) == DataLoaderLen(CADDataset(config.val_files, config.val_labels))

(***************************************************************************)
(* Trainer                                                                 *)
(***************************************************************************)

Patience == 1        \* training_config["patience"] of a request
ValLosses == {1, 2}  \* validation losses an epoch can measure
NaN == 0             \* the float nan: a loss that compares false with every loss

\* The series of the training history.
Series == {"train_loss", "val_loss", "train_acc", "val_acc", "learning_rate"}

\* CADModelTrainer.__init__: the empty training history.
NewHistory == [ series \in Series |-> <<>> ]

\* CADModelTrainer.__init__: training state and early stopping.
NewTrainer(config) ==
  [ epochs                 |-> config.epochs,
    patience               |-> config.patience,
    current_epoch          |-> 0,
    epochs_run             |-> 0,
    best_val_loss          |-> Null,     \* float("inf")
    early_stopping_counter |-> 0,
    stopped                |-> FALSE,
    model_state            |-> 0,        \* the model's parameters: epochs trained into them
    best_model_state       |-> Null,     \* None
    training_history       |-> NewHistory,
    files                  |-> <<>> ]    \* save_dir: file name -> what torch.save wrote

\* train_epoch: the notification of batch 0 (batch_idx % 10 == 0).
BatchNotification(epoch) ==
  [ epoch |-> epoch, batch |-> 0, batch_progress |-> 0, loss |-> <<"batch", epoch>> ]

\* train: the notification at the end of an epoch.
EpochNotification(epoch, epochs) ==
  [ epoch            |-> epoch,
    total_epochs     |-> epochs,
    progress         |-> ((epoch + 1) * 100) \div epochs,
    train_loss       |-> <<"train", epoch>>,
    val_loss         |-> <<"val", epoch>>,
    train_acc        |-> <<"train", epoch>>,
    val_acc          |-> <<"val", epoch>>,
    learning_rate    |-> <<"lr", epoch>>,
    detailed_metrics |-> <<"val", epoch>> ]

\* A comparison that also takes a loss equal to the best as an improvement.
IsBest_OrEqual(t, val_loss) ==
  /\ val_loss # NaN
  /\ t.best_val_loss = Null \/ val_loss <= t.best_val_loss[1]

\* val_loss < self.best_val_loss, with best_val_loss = inf before any epoch;
\* nan is less than nothing.
IsBest(t, val_loss) ==
  /\ val_loss # NaN
  /\ t.best_val_loss = Null \/ val_loss < t.best_val_loss[1]

\* model.state_dict().copy(): a new dict of the model's own parameter tensors,
\* which the optimizer goes on updating in place.
StateDictCopy(t) == [ tensors |-> "model" ]

\* The parameter values a state dict holds when it is read.
StateDictValues(t, state) == IF state.tensors = "model" THEN t.model_state ELSE state.values

\* A save that writes a best checkpoint to the _best file only.
save_checkpoint_BestOnly(t, epoch, is_best) ==
  LET checkpoint == [ epoch |-> epoch, model_state_dict |-> t.model_state,
                      training_history |-> t.training_history ]
      written == IF is_best
                 THEN { <<"checkpoint_epoch_best", epoch>> }
                 ELSE { <<"checkpoint_epoch", epoch>> }
  IN  [f \in written |-> checkpoint] @@ t.files

\* save_checkpoint: the checkpoint written to filepath and, if is_best, to
\* the _best file of that name.
save_checkpoint(t, epoch, is_best) ==
  LET checkpoint == [ epoch |-> epoch, model_state_dict |-> t.model_state,
                      training_history |-> t.training_history ]
      written == IF is_best
                 THEN { <<"checkpoint_epoch", epoch>>, <<"checkpoint_epoch_best", epoch>> }
                 ELSE { <<"checkpoint_epoch", epoch>> }
  IN  [f \in written |-> checkpoint] @@ t.files

\* A history that holds the last epoch's record only.
AppendHistory_KeepsLast(history, epoch, val_loss) ==
  [ train_loss    |-> << <<"train", epoch>> >>,
    val_loss      |-> << val_loss >>,
    train_acc     |-> << <<"train", epoch>> >>,
    val_acc       |-> << <<"val", epoch>> >>,
    learning_rate |-> << <<"lr", epoch>> >> ]

\* train: the epoch's record is appended to the five series of the history.
AppendHistory(history, epoch, val_loss) ==
  [ train_loss    |-> Append(history.train_loss, <<"train", epoch>>),
    val_loss      |-> Append(history.val_loss, val_loss),
    train_acc     |-> Append(history.train_acc, <<"train", epoch>>),
    val_acc       |-> Append(history.val_acc, <<"val", epoch>>),
    learning_rate |-> Append(history.learning_rate, <<"lr", epoch>>) ]

\* An epoch loop that stops one epoch late: only once the counter exceeds the
\* patience.
EpochStep_StopsLate(t, val_loss) ==
  LET epoch == t.epochs_run
      trained == [t EXCEPT !.model_state = epoch + 1,  \* after train_epoch
                           !.training_history = AppendHistory(@, epoch, val_loss)]
      counter == IF IsBest(t, val_loss) THEN 0 ELSE t.early_stopping_counter + 1
  IN  [ epochs                 |-> t.epochs,
        patience               |-> t.patience,
        current_epoch          |-> epoch,
        epochs_run             |-> epoch + 1,
        best_val_loss          |-> IF IsBest(t, val_loss)
                                   THEN Some(val_loss) ELSE t.best_val_loss,
        early_stopping_counter |-> counter,
        stopped                |-> counter > t.patience,
        model_state            |-> trained.model_state,
        best_model_state       |-> IF IsBest(t, val_loss)
                                   THEN Some(StateDictCopy(trained)) ELSE t.best_model_state,
        training_history       |-> trained.training_history,
        files                  |-> save_checkpoint(trained, epoch, IsBest(t, val_loss)) ]

\* train: one iteration of the epoch loop, for the validation loss measured.
EpochStep(t, val_loss) ==
  LET epoch == t.epochs_run
      trained == [t EXCEPT !.model_state = epoch + 1,  \* after train_epoch
                           !.training_history = AppendHistory(@, epoch, val_loss)]
      counter == IF IsBest(t, val_loss) THEN 0 ELSE t.early_stopping_counter + 1
  IN  [ epochs                 |-> t.epochs,
        patience               |-> t.patience,
        current_epoch          |-> epoch,
        epochs_run             |-> epoch + 1,
        best_val_loss          |-> IF IsBest(t, val_loss)
                                   THEN Some(val_loss) ELSE t.best_val_loss,
        early_stopping_counter |-> counter,
        stopped                |-> counter >= t.patience,
        model_state            |-> trained.model_state,
        best_model_state       |-> IF IsBest(t, val_loss)
                                   THEN Some(StateDictCopy(trained)) ELSE t.best_model_state,
        training_history       |-> trained.training_history,
        files                  |-> save_checkpoint(trained, epoch, IsBest(t, val_loss)) ]

\* A loop over range(epochs - 1): it stops one epoch short.
LoopContinues_OneShort(t) == t.epochs_run + 1 < t.epochs /\ ~t.stopped

\* train: the loop runs another epoch.
LoopContinues(t) == t.epochs_run < t.epochs /\ ~t.stopped

\* train: after the loop, the best state is loaded into the model and the
\* final model is saved.
FinishTraining(t) ==
  LET loaded == IF t.best_model_state # Null
                THEN StateDictValues(t, t.best_model_state[1]) ELSE t.model_state
  IN  [t EXCEPT !.model_state = loaded,
                !.files = [f \in {<<"final_model">>} |-> [ model_state_dict |-> loaded ]] @@ @]

\* train: the results returned after the loop.
TrainingResults(t) ==
  [ model_path       |-> "final_model.pth",
    final_train_loss |-> <<"train", t.epochs_run - 1>>,
    final_val_loss   |-> <<"final">>,
    final_val_acc    |-> <<"final">>,
    detailed_metrics |-> <<"final">>,
    epochs_trained   |-> t.current_epoch + 1 ]

(***************************************************************************)
(* Initial state: a ready dataset, no job, nothing submitted.              *)
(***************************************************************************)

\* A set-default request that has not arrived: no transaction.
NoTransaction == [ at |-> "idle", model_id |-> Null, model_type |-> Null, writes |-> <<>> ]

\* The trainer of a delivery that has none (not started, returned, killed).
NoTrainer == NewTrainer([ epochs |-> 0, patience |-> 0 ])

\* A dataset of n files, all labelled, the two classes alternating.
LabelledDataset(n) ==
  NewDataset([i \in 1 .. n |-> i], [fid \in 1 .. n |-> fid % 2])

InitStores ==
  /\ jobs = <<>>
  /\ models = {}
  /\ cache = <<>>
  /\ api = "request"
  /\ task = [ submitted |-> FALSE, revoked |-> FALSE ]
  /\ pc = [r \in Runs |-> "undelivered"]
  /\ dataset_config = [r \in Runs |-> Null]
  /\ trainer = [r \in Runs |-> NoTrainer]
  /\ progress = [r \in Runs |-> {}]
  /\ err = [r \in Runs |-> Null]
  /\ result = [r \in Runs |-> Null]
  /\ cancel = [c \in Cancels |-> [ at |-> "idle", status |-> Null ]]
  /\ response = Null
  /\ default_calls = [c \in DefaultCalls |-> NoTransaction]
  /\ delete_call = "idle"

\* One delivery; the request asks for MaxEpochs epochs; up to MaxCancels
\* cancel requests.
Init ==
  /\ InitStores
  /\ datasets = [d \in {DatasetId} |-> LabelledDataset(MaxFiles)]
  /\ training_config = [ epochs |-> MaxEpochs, patience |-> Patience ]
  /\ deliveries = 1
  /\ cancels = MaxCancels
  /\ val_losses = ValLosses

\* Up to MaxDeliveries deliveries; the request asks for one epoch; one cancel
\* request.
InitRedelivery ==
  /\ InitStores
  /\ datasets = [d \in {DatasetId} |-> LabelledDataset(MaxFiles)]
  /\ training_config = [ epochs |-> 1, patience |-> Patience ]
  /\ deliveries = MaxDeliveries
  /\ cancels = 1
  /\ val_losses = ValLosses

\* The stored orders of n files: ascending and descending ids.
FileOrders(n) == { [i \in 1 .. n |-> i], [i \in 1 .. n |-> n + 1 - i] }

\* Labellings: the two classes alternating, or one class only.
LabelSchemes == { [fid \in FileIds |-> fid % 2], [fid \in FileIds |-> 0] }

\* The datasets of up to MaxFiles files of which up to MaxUnlabelled have no
\* label.
Datasets ==
  UNION { { NewDataset(file_ids, [fid \in Range(file_ids) \ unlabelled |-> scheme[fid]]) :
              file_ids \in FileOrders(n), scheme \in LabelSchemes,
              unlabelled \in { u \in SUBSET (1 .. n) : Cardinality(u) <= MaxUnlabelled } } :
          n \in 0 .. MaxFiles }

\* One delivery; the request asks for MaxEpochs epochs; one cancel request;
\* every epoch measures the same validation loss.
InitProgress ==
  /\ InitStores
  /\ datasets = [d \in {DatasetId} |-> LabelledDataset(MaxFiles)]
  /\ training_config = [ epochs |-> MaxEpochs, patience |-> Patience ]
  /\ deliveries = 1
  /\ cancels = 1
  /\ val_losses \in { {loss} : loss \in ValLosses }

\* One delivery; the request asks for MaxPollEpochs epochs; one cancel
\* request.
InitPoll ==
  /\ InitStores
  /\ datasets = [d \in {DatasetId} |-> LabelledDataset(MaxFiles)]
  /\ training_config = [ epochs |-> MaxPollEpochs, patience |-> Patience ]
  /\ deliveries = 1
  /\ cancels = 1
  /\ val_losses = ValLosses

\* Any such dataset; one delivery of a one-epoch job, no cancel request.
InitDataset ==
  /\ InitStores
  /\ datasets \in [{DatasetId} -> Datasets]
  /\ training_config = [ epochs |-> 1, patience |-> Patience ]
  /\ deliveries = 1
  /\ cancels = 0
  /\ val_losses = ValLosses

\* The losses an epoch measures under SpecTrainer: finite ones, enough for a
\* loss that falls in every epoch, and nan.
TrainerLosses == (1 .. MaxTrainerEpochs) \cup {NaN}

\* One delivery of a job of up to MaxTrainerEpochs epochs with any patience
\* from 1 to Patience, no cancel request.
InitTrainer ==
  /\ InitStores
  /\ datasets = [d \in {DatasetId} |-> LabelledDataset(MaxFiles)]
  /\ training_config \in [ epochs : 1 .. MaxTrainerEpochs, patience : 1 .. Patience ]
  /\ deliveries = 1
  /\ cancels = 0
  /\ val_losses = TrainerLosses

\* No dataset yet; the dataset requests arrive one at a time.
InitFiles ==
  /\ InitStores
  /\ datasets = <<>>
  /\ training_config = [ epochs |-> 1, patience |-> Patience ]
  /\ deliveries = 1
  /\ cancels = 0
  /\ val_losses = ValLosses

\* No model yet, no training job requested.
InitDefault ==
  /\ InitStores
  /\ datasets = [d \in {DatasetId} |-> LabelledDataset(MaxFiles)]
  /\ training_config = [ epochs |-> 1, patience |-> Patience ]
  /\ deliveries = 1
  /\ cancels = 0
  /\ val_losses = ValLosses

(***************************************************************************)
(* Dataset management (outside the training core): preprocessing flips    *)
(* the status, the delete endpoint removes the row.                        *)
(***************************************************************************)

\* The request handler or some delivery can still read the dataset (a change
\* nobody reads afterwards has no effect on the job).
DatasetStillRead ==
  \/ api = "request"
  \/ \E r \in Runs : r <= deliveries /\ pc[r] \in {"undelivered", "get_dataset"}

SetDatasetStatus ==
  /\ DatasetStillRead
  /\ DatasetId \in DOMAIN datasets
  /\ \E s \in {"ready", "processing", "error"} :
       /\ s # datasets[DatasetId].status
       /\ datasets' = [datasets EXCEPT ![DatasetId].status = s]
  /\ UNCHANGED <<env, delete_call, default_calls, response, dataset_config, jobs, models, cache, api, task, pc, trainer, progress, err, result, cancel>>

DeleteDataset ==
  /\ DatasetStillRead
  /\ DatasetId \in DOMAIN datasets
  /\ datasets' = <<>>
  /\ UNCHANGED <<env, delete_call, default_calls, response, dataset_config, jobs, models, cache, api, task, pc, trainer, progress, err, result, cancel>>

\* The file_ids of a dataset request: up to MaxRequestFiles ids, repeats
\* included.
RequestFileIds == UNION { [1 .. n -> 1 .. MaxRequestIds] : n \in 0 .. MaxRequestFiles }

\* Request labels that name any of the request's ids, the route's check left
\* out.
RequestLabels_Unvalidated(file_ids) ==
  UNION { [keys -> Classes] : keys \in SUBSET (1 .. MaxRequestIds) }

\* The labels of a request for file_ids: a dict over any ids; the routes
\* reject a request that leaves one of its files without a label.
RequestLabels(file_ids) ==
  UNION { [keys -> Classes] :
            keys \in { k \in SUBSET (1 .. MaxRequestIds) : Range(file_ids) \subseteq k } }

\* POST /datasets: the dataset is created from the request's file_ids and
\* labels.
CreateDataset ==
  /\ DatasetId \notin DOMAIN datasets
  /\ \E file_ids \in RequestFileIds : \E labels \in RequestLabels(file_ids) :
       datasets' = [d \in {DatasetId} |-> NewDataset(file_ids, labels)]
  /\ UNCHANGED <<env, delete_call, default_calls, response, dataset_config, jobs, models, cache, api, task, pc, trainer, progress, err, result, cancel>>

\* add_files_to_dataset of the service for the request's file_ids and labels.
add_files_to_dataset(file_ids, labels) ==
  /\ DatasetId \in DOMAIN datasets
  /\ LET dataset == datasets[DatasetId]
     IN  \E updated_file_ids \in ListOfSet(dataset.file_ids \o file_ids) :
           datasets' = [datasets EXCEPT ![DatasetId] =
             AddFilesUpdateData(dataset, file_ids, labels, updated_file_ids) @@ @]
  /\ UNCHANGED <<env, delete_call, default_calls, response, dataset_config, jobs, models, cache, api, task, pc, trainer, progress, err, result, cancel>>

\* POST /datasets/{id}/files: the request's files are merged into the dataset.
AddFiles ==
  \E file_ids \in RequestFileIds : \E labels \in RequestLabels(file_ids) :
    add_files_to_dataset(file_ids, labels)

\* DELETE /datasets/{id}/files: the request's files are removed from the
\* dataset.
RemoveFiles ==
  /\ DatasetId \in DOMAIN datasets
  /\ \E file_ids \in RequestFileIds :
       datasets' = [datasets EXCEPT ![DatasetId] = RemoveFilesUpdateData(@, file_ids) @@ @]
  /\ UNCHANGED <<env, delete_call, default_calls, response, dataset_config, jobs, models, cache, api, task, pc, trainer, progress, err, result, cancel>>

(***************************************************************************)
(* POST /jobs: create_training_job                                         *)
(***************************************************************************)

\* Dataset validated, job row inserted in status queued.
ApiCreateJob ==
  /\ api = "request"
  /\ DatasetId \in DOMAIN datasets
  /\ datasets[DatasetId].status = "ready"
  /\ jobs' = [j \in {JobId} |-> NewTrainingJob(training_config)]
  /\ api' = "created"
  /\ UNCHANGED <<env, delete_call, default_calls, response, dataset_config, datasets, models, cache, task, pc, trainer, progress, err, result, cancel>>

\* train_cad_model_task.delay(...): the message is with the broker.
ApiSubmitTask ==
  /\ api = "created"
  /\ task' = [task EXCEPT !.submitted = TRUE]
  /\ api' = "submitted"
  /\ UNCHANGED <<env, delete_call, default_calls, response, dataset_config, jobs, datasets, models, cache, pc, trainer, progress, err, result, cancel>>

\* update_training_job(id, {"celery_task_id": task.id}).
ApiStoreTaskId ==
  /\ api = "submitted"
  /\ jobs' = UpdateJob(jobs, JobId, [ celery_task_id |-> Some(TaskId) ])
  /\ api' = "done"
  /\ UNCHANGED <<env, delete_call, default_calls, response, dataset_config, datasets, models, cache, task, pc, trainer, progress, err, result, cancel>>

(***************************************************************************)
(* train_cad_model_task: one delivery r of the job's message               *)
(***************************************************************************)

\* The worker starts the task (a revoked message is discarded instead) and
\* _train_model writes status running.  Deliveries are numbered in the order
\* they start.
RunStart(r) ==
  /\ pc[r] = "undelivered"
  /\ r <= deliveries
  /\ \A q \in Runs : q < r => pc[q] # "undelivered"
  /\ task.submitted /\ ~task.revoked
  /\ jobs' = _update_training_job_status(jobs, JobId, "running", Some(TaskId), Null, r)
  /\ pc' = [pc EXCEPT ![r] = "get_dataset"]
  /\ UNCHANGED <<env, delete_call, default_calls, response, dataset_config, datasets, models, cache, api, task, trainer, progress, err, result, cancel>>

\* A run that constructs its trainer before it checks the dataset.
RunGetDataset_TrainerFirst(r) ==
  /\ pc[r] = "get_dataset"
  /\ IF DatasetId \notin DOMAIN datasets
     THEN /\ err' = [err EXCEPT ![r] = Some("Dataset D1 not found")]
          /\ pc' = [pc EXCEPT ![r] = "failing"]
          /\ trainer' = [trainer EXCEPT ![r] = NewTrainer(training_config)]
          /\ UNCHANGED dataset_config
     ELSE IF datasets[DatasetId].status # "ready"
     THEN /\ err' = [err EXCEPT ![r] = Some("Dataset D1 is not ready for training")]
          /\ pc' = [pc EXCEPT ![r] = "failing"]
          /\ trainer' = [trainer EXCEPT ![r] = NewTrainer(training_config)]
          /\ UNCHANGED dataset_config
     ELSE /\ dataset_config' = [dataset_config EXCEPT ![r] =
                 Some(_prepare_dataset_config(datasets[DatasetId]))]
          /\ trainer' = [trainer EXCEPT ![r] = NewTrainer(training_config)]
          /\ pc' = [pc EXCEPT ![r] = "train"]
          /\ UNCHANGED err
  /\ UNCHANGED <<env, delete_call, default_calls, response, jobs, datasets, models, cache, api, task, progress, result, cancel>>

\* get_dataset, the two dataset checks, _prepare_dataset_config and the
\* construction of the trainer.
RunGetDataset(r) ==
  /\ pc[r] = "get_dataset"
  /\ IF DatasetId \notin DOMAIN datasets
     THEN /\ err' = [err EXCEPT ![r] = Some("Dataset D1 not found")]
          /\ pc' = [pc EXCEPT ![r] = "failing"]
          /\ UNCHANGED <<dataset_config, trainer>>
     ELSE IF datasets[DatasetId].status # "ready"
     THEN /\ err' = [err EXCEPT ![r] = Some("Dataset D1 is not ready for training")]
          /\ pc' = [pc EXCEPT ![r] = "failing"]
          /\ UNCHANGED <<dataset_config, trainer>>
     ELSE /\ dataset_config' = [dataset_config EXCEPT ![r] =
                 Some(_prepare_dataset_config(datasets[DatasetId]))]
          /\ trainer' = [trainer EXCEPT ![r] = NewTrainer(training_config)]
          /\ pc' = [pc EXCEPT ![r] = "train"]
          /\ UNCHANGED err
  /\ UNCHANGED <<env, delete_call, default_calls, response, jobs, datasets, models, cache, api, task, progress, result, cancel>>

\* trainer.train: one epoch of the loop.  The progress callback creates one
\* update task for the batch notification and one for the epoch's.
RunTrainEpoch(r) ==
  /\ pc[r] = "train"
  /\ LoopContinues(trainer[r])
  /\ TrainBatches(dataset_config[r][1]) > 0
  /\ ValBatches(dataset_config[r][1]) > 0
  /\ \E val_loss \in val_losses :
       trainer' = [trainer EXCEPT ![r] = EpochStep(@, val_loss)]
  /\ LET epoch == trainer[r].epochs_run
     IN  progress' = [progress EXCEPT ![r] = @ \cup
           { BatchNotification(epoch), EpochNotification(epoch, trainer[r].epochs) }]
  /\ UNCHANGED <<env, delete_call, default_calls, response, dataset_config, jobs, datasets, models, cache, api, task, pc, err, result, cancel>>

\* str(e) of the exceptions the except handler can catch; raised without
\* arguments (asyncio.TimeoutError(), AssertionError()) str(e) is "".
ExceptionMessages == {"training error", ""}

\* trainer.train raises in an epoch (a file that cannot be loaded, ...).
RunTrainRaises(r) ==
  /\ pc[r] = "train"
  /\ LoopContinues(trainer[r])
  /\ \E message \in ExceptionMessages : err' = [err EXCEPT ![r] = Some(message)]
  /\ pc' = [pc EXCEPT ![r] = "failing"]
  /\ UNCHANGED <<env, delete_call, default_calls, response, dataset_config, jobs, datasets, models, cache, api, task, trainer, progress, result, cancel>>

\* str(e) of what an empty training loader raises: the sampler of
\* DataLoader(shuffle=True) rejects an empty dataset in prepare_data, or
\* train_epoch divides by len(train_loader) = 0.
EmptyLoaderMessages ==
  { "num_samples should be a positive integer value, but got num_samples=0",
    "float division by zero" }

\* trainer.train on a training split without a labelled file: it raises
\* before a batch is trained.
RunTrainNoData(r) ==
  /\ pc[r] = "train"
  /\ LoopContinues(trainer[r])
  /\ TrainBatches(dataset_config[r][1]) = 0
  /\ \E message \in EmptyLoaderMessages : err' = [err EXCEPT ![r] = Some(message)]
  /\ pc' = [pc EXCEPT ![r] = "failing"]
  /\ UNCHANGED <<env, delete_call, default_calls, response, dataset_config, jobs, datasets, models, cache, api, task, trainer, progress, result, cancel>>

\* trainer.train on a validation split without a labelled file: train_epoch
\* runs (and notifies batch 0), validate_epoch divides by len(val_loader) = 0.
RunValidateNoData(r) ==
  /\ pc[r] = "train"
  /\ LoopContinues(trainer[r])
  /\ TrainBatches(dataset_config[r][1]) > 0
  /\ ValBatches(dataset_config[r][1]) = 0
  /\ progress' = [progress EXCEPT ![r] = @ \cup {BatchNotification(trainer[r].epochs_run)}]
  /\ err' = [err EXCEPT ![r] = Some("float division by zero")]
  /\ pc' = [pc EXCEPT ![r] = "failing"]
  /\ UNCHANGED <<env, delete_call, default_calls, response, dataset_config, jobs, datasets, models, cache, api, task, trainer, result, cancel>>

\* trainer.train returns its results.
RunTrainReturns(r) ==
  /\ pc[r] = "train"
  /\ ~LoopContinues(trainer[r])
  /\ trainer' = [trainer EXCEPT ![r] = FinishTraining(@)]
  /\ pc' = [pc EXCEPT ![r] = "create_model"]
  /\ UNCHANGED <<env, delete_call, default_calls, response, dataset_config, jobs, datasets, models, cache, api, task, progress, err, result, cancel>>

\* ModelService.create_model: the AIModel row.
NewAIModel(r, training_results) ==
  [ id                  |-> r,
    model_type          |-> "cnn",     \* model_config.get("model_type", "cnn")
    training_job_id     |-> JobId,
    training_dataset_id |-> DatasetId,
    model_path          |-> training_results.model_path,
    status              |-> "ready",   \* the column's default
    is_default          |-> FALSE ]    \* the column's default

RunCreateModel(r) ==
  /\ pc[r] = "create_model"
  /\ models' = models \cup { NewAIModel(r, TrainingResults(trainer[r])) }
  /\ pc' = [pc EXCEPT ![r] = "completion"]
  /\ UNCHANGED <<env, delete_call, default_calls, response, dataset_config, jobs, datasets, cache, api, task, trainer, progress, err, result, cancel>>

\* create_model raises (the record store fails): before the commit, or in
\* the refresh after it, when the row is already stored.
RunCreateModelRaises(r) ==
  /\ pc[r] = "create_model"
  /\ \E committed \in BOOLEAN :
       models' = IF committed
                 THEN models \cup { NewAIModel(r, TrainingResults(trainer[r])) }
                 ELSE models
  /\ err' = [err EXCEPT ![r] = Some("database error")]
  /\ pc' = [pc EXCEPT ![r] = "failing"]
  /\ UNCHANGED <<env, delete_call, default_calls, response, dataset_config, jobs, datasets, cache, api, task, trainer, progress, result, cancel>>

\* _update_training_job_completion, and the value returned on success.
RunCompletion(r) ==
  /\ pc[r] = "completion"
  /\ jobs' = _update_training_job_completion(jobs, JobId, TrainingResults(trainer[r]), r)
  /\ result' = [result EXCEPT ![r] =
       Some([ success |-> TRUE, training_job_id |-> JobId, model_id |-> r ])]
  /\ pc' = [pc EXCEPT ![r] = "closing"]
  /\ UNCHANGED <<env, delete_call, default_calls, response, dataset_config, datasets, models, cache, api, task, trainer, progress, err, cancel>>

\* The completion UPDATE raises (the record store refuses the write).
RunCompletionRaises(r) ==
  /\ pc[r] = "completion"
  /\ err' = [err EXCEPT ![r] = Some("database error")]
  /\ pc' = [pc EXCEPT ![r] = "failing"]
  /\ UNCHANGED <<env, delete_call, default_calls, response, dataset_config, jobs, datasets, models, cache, api, task, trainer, progress, result, cancel>>

\* An except branch that returns the failure without writing the status.
RunFail_StatusUnwritten(r) ==
  /\ pc[r] = "failing"
  /\ result' = [result EXCEPT ![r] =
       Some([ success |-> FALSE, training_job_id |-> JobId, error |-> err[r][1] ])]
  /\ pc' = [pc EXCEPT ![r] = "closing"]
  /\ UNCHANGED <<env, delete_call, default_calls, response, dataset_config, jobs, datasets, models, cache, api, task, trainer, progress, err, cancel>>

\* except Exception: status failed with str(e), and the value returned.
RunFail(r) ==
  /\ pc[r] = "failing"
  /\ jobs' = _update_training_job_status(jobs, JobId, "failed", Some(TaskId), err[r], r)
  /\ result' = [result EXCEPT ![r] =
       Some([ success |-> FALSE, training_job_id |-> JobId, error |-> err[r][1] ])]
  /\ pc' = [pc EXCEPT ![r] = "closing"]
  /\ UNCHANGED <<env, delete_call, default_calls, response, dataset_config, datasets, models, cache, api, task, trainer, progress, err, cancel>>

\* The session closes, _train_model returns and loop.close() drops the update
\* tasks that have not run; the trainer goes with the task.
RunReturn(r) ==
  /\ pc[r] = "closing"
  /\ pc' = [pc EXCEPT ![r] = "done"]
  /\ progress' = [progress EXCEPT ![r] = {}]
  /\ dataset_config' = [dataset_config EXCEPT ![r] = Null]
  /\ trainer' = [trainer EXCEPT ![r] = NoTrainer]
  /\ UNCHANGED <<env, delete_call, default_calls, response, jobs, datasets, models, cache, api, task, err, result, cancel>>

\* The event loop of delivery r runs other tasks: _train_model is suspended
\* in an await (trainer.train never awaits).
LoopRunsTasks(r) == pc[r] \in {"create_model", "completion", "failing", "closing"}

\* An update task that writes the cache before it commits: a failing cache
\* write loses the UPDATE.
ProgressUpdate_CacheInTransaction(r) ==
  /\ LoopRunsTasks(r)
  /\ \E progress_data \in progress[r] :
       \/ /\ jobs' = _update_training_progress(jobs, JobId, progress_data)
          /\ cache' = cache_set(cache, JobId, progress_data)
          /\ progress' = [progress EXCEPT ![r] = @ \ {progress_data}]
       \/ /\ jobs' = jobs
          /\ cache' = cache
          /\ progress' = [progress EXCEPT ![r] = @ \ {progress_data}]
  /\ UNCHANGED <<env, delete_call, default_calls, response, dataset_config, datasets, models, api, task, pc, trainer, err, result, cancel>>

\* _update_training_progress, run by the event loop as one update task: the
\* UPDATE of the job row, committed, then cache_set of the notification.
\* cache_set can raise (Redis unreachable): the exception ends the task, which
\* nothing awaits.
ProgressUpdate(r) ==
  /\ LoopRunsTasks(r)
  /\ \E progress_data \in progress[r] :
       /\ jobs' = _update_training_progress(jobs, JobId, progress_data)
       /\ \/ cache' = cache_set(cache, JobId, progress_data)
          \/ cache' = cache
       /\ progress' = [progress EXCEPT ![r] = @ \ {progress_data}]
  /\ UNCHANGED <<env, delete_call, default_calls, response, dataset_config, datasets, models, api, task, pc, trainer, err, result, cancel>>

\* revoke(terminate=True) reaches the worker: the task's process is killed.
RunTerminated(r) ==
  /\ task.revoked
  /\ pc[r] \in {"get_dataset", "train", "create_model", "completion", "failing", "closing"}
  /\ pc' = [pc EXCEPT ![r] = "killed"]
  /\ progress' = [progress EXCEPT ![r] = {}]
  /\ dataset_config' = [dataset_config EXCEPT ![r] = Null]
  /\ trainer' = [trainer EXCEPT ![r] = NoTrainer]
  /\ UNCHANGED <<env, delete_call, default_calls, response, jobs, datasets, models, cache, api, task, err, result, cancel>>

(***************************************************************************)
(* Model registry: creation, deletion and POST /models/{id}/set-default.   *)
(* Each set-default request runs its two UPDATEs in one transaction (READ  *)
(* COMMITTED): an UPDATE sees the committed rows, waits for a row another  *)
(* transaction has written, and its own writes show at its commit.         *)
(***************************************************************************)

ModelTypes == {"cnn", "resnet"}

\* The id of every stored AIModel.
StoredModelIds == { m.id : m \in models }

\* The stored AIModel of an id.
ModelOf(id) == CHOOSE m \in models : m.id = id

\* The rows other transactions than c's have written and not committed.
LockedByOthers(c) == UNION { DOMAIN default_calls[d].writes : d \in DefaultCalls \ {c} }

\* ModelService.create_model called for a model of any type.
CreateModel(id) ==
  /\ id \notin StoredModelIds
  /\ \E model_type \in ModelTypes :
       models' = models \cup
         { [NewAIModel(id, [ model_path |-> "final_model.pth" ]) EXCEPT !.model_type = model_type] }
  /\ UNCHANGED <<env, delete_call, default_calls, response, dataset_config, jobs, datasets, cache, api, task, pc, trainer, progress, err, result, cancel>>

\* DELETE /models/{id}: a default model is refused, any other row is deleted.
DeleteModel(id) ==
  /\ id \in StoredModelIds
  /\ ~ModelOf(id).is_default
  /\ id \notin LockedByOthers(0)
  /\ models' = models \ { ModelOf(id) }
  /\ UNCHANGED <<env, delete_call, default_calls, response, dataset_config, jobs, datasets, cache, api, task, pc, trainer, progress, err, result, cancel>>

\* POST /models/{id}/set-default: the route reads the model (404 when it is
\* missing, 400 when it is not ready) and calls the service with its type.
SetDefaultRequest(c, id) ==
  /\ default_calls[c].at = "idle"
  /\ IF id \in StoredModelIds /\ ModelOf(id).status = "ready"
     THEN default_calls' = [default_calls EXCEPT ![c] =
            [ at |-> "unset", model_id |-> Some(id),
              model_type |-> Some(ModelOf(id).model_type), writes |-> <<>> ]]
     ELSE default_calls' = [default_calls EXCEPT ![c].at = "done"]
  /\ UNCHANGED <<env, delete_call, response, dataset_config, jobs, datasets, models, cache, api, task, pc, trainer, progress, err, result, cancel>>

\* set_default_model: UPDATE ... SET is_default = False WHERE model_type =
\* :type AND is_default.
SetDefaultUnset(c) ==
  /\ default_calls[c].at = "unset"
  /\ LET matching == { m.id : m \in { x \in models :
                         x.model_type = default_calls[c].model_type[1] /\ x.is_default } }
     IN  /\ matching \cap LockedByOthers(c) = {}
         /\ default_calls' = [default_calls EXCEPT ![c].at = "set",
                                                   ![c].writes = [id \in matching |-> FALSE]]
  /\ UNCHANGED <<env, delete_call, response, dataset_config, jobs, datasets, models, cache, api, task, pc, trainer, progress, err, result, cancel>>

\* set_default_model: UPDATE ... SET is_default = True WHERE id = :model_id
\* (no row when the model has been deleted).
SetDefaultSet(c) ==
  /\ default_calls[c].at = "set"
  /\ LET id == default_calls[c].model_id[1]
         writes == default_calls[c].writes
     IN  /\ id \notin LockedByOthers(c)
         /\ default_calls' = [default_calls EXCEPT ![c].at = "commit", ![c].writes =
              IF id \in StoredModelIds
              THEN [w \in DOMAIN writes \cup {id} |-> IF w = id THEN TRUE ELSE writes[w]]
              ELSE writes]
  /\ UNCHANGED <<env, delete_call, response, dataset_config, jobs, datasets, models, cache, api, task, pc, trainer, progress, err, result, cancel>>

\* set_default_model: await self.db.commit().
SetDefaultCommit(c) ==
  /\ default_calls[c].at = "commit"
  /\ LET writes == default_calls[c].writes
     IN  models' = { IF m.id \in DOMAIN writes
                    THEN [m EXCEPT !.is_default = writes[m.id]] ELSE m : m \in models }
  /\ default_calls' = [default_calls EXCEPT ![c].at = "done", ![c].writes = <<>>]
  /\ UNCHANGED <<env, delete_call, response, dataset_config, jobs, datasets, cache, api, task, pc, trainer, progress, err, result, cancel>>

(***************************************************************************)
(* POST /jobs/{id}/cancel and cancel_training_job_task                     *)
(***************************************************************************)

\* cancel_training_job: the job is read, its status checked (HTTP 400 for a
\* job that is not queued or running), the task revoked when the row holds
\* its id, and the background task scheduled.
CancelRequest(c) ==
  /\ cancel[c].at = "idle"
  /\ c <= cancels
  /\ JobId \in DOMAIN jobs
  /\ LET job == jobs[JobId]
     IN  IF job.status \notin {"queued", "running"}
         THEN /\ cancel' = [cancel EXCEPT ![c] = [ at |-> "rejected", status |-> Some(job.status) ]]
              /\ UNCHANGED task
         ELSE /\ cancel' = [cancel EXCEPT ![c] = [ at |-> "scheduled", status |-> Some(job.status) ]]
              /\ task' = IF job.celery_task_id # Null
                         THEN [task EXCEPT !.revoked = TRUE] ELSE task
  /\ UNCHANGED <<env, delete_call, default_calls, response, dataset_config, jobs, datasets, models, cache, api, pc, trainer, progress, err, result>>

\* cancel_training_job_task, run as the background task: status cancelled,
\* whatever the row holds, then the cancel marker replaces the cached progress.
CancelTask(c) ==
  /\ cancel[c].at = "scheduled"
  /\ jobs' = _update_training_job_status(jobs, JobId, "cancelled", Null, Null, 0)
  /\ cache' = cache_set(cache, JobId, CancelMarker)
  /\ cancel' = [cancel EXCEPT ![c].at = "done"]
  /\ UNCHANGED <<env, delete_call, default_calls, response, dataset_config, datasets, models, api, task, pc, trainer, progress, err, result>>

(***************************************************************************)
(* DELETE /jobs/{id}                                                       *)
(***************************************************************************)

\* delete_training_job of the route: the job is read (404 when there is
\* none) and a running job is refused with 400.
DeleteJobRequest ==
  /\ delete_call = "idle"
  /\ delete_call' = IF JobId \notin DOMAIN jobs THEN "not_found"
                    ELSE IF jobs[JobId].status = "running" THEN "refused"
                    ELSE "deleting"
  /\ UNCHANGED <<env, default_calls, response, dataset_config, jobs, datasets, models, cache, api, task, pc, trainer, progress, err, result, cancel>>

\* TrainingService.delete_training_job: DELETE FROM training_jobs WHERE id =
\* :job_id, committed.
DeleteJob ==
  /\ delete_call = "deleting"
  /\ jobs' = [id \in DOMAIN jobs \ {JobId} |-> jobs[id]]
  /\ delete_call' = "deleted"
  /\ UNCHANGED <<env, default_calls, response, dataset_config, datasets, models, cache, api, task, pc, trainer, progress, err, result, cancel>>

(***************************************************************************)
(* GET /jobs/{id}/progress and the cache's TTL                             *)
(***************************************************************************)

\* A handler that prefers the cached notification's epoch to the job row's.
get_training_progress_CacheFirst(store, c, id) ==
  IF id \notin DOMAIN store
  THEN [ status_code |-> 404 ]
  ELSE LET job == store[id]
           cached_progress == cache_get(c, id)
           CachedValue(key) ==
             IF cached_progress # Null /\ key \in DOMAIN cached_progress[1]
             THEN Some(cached_progress[1][key]) ELSE Null
       IN  [ status_code          |-> 200,
             status               |-> job.status,
             current_epoch        |-> IF CachedValue("epoch") # Null
                                      THEN CachedValue("epoch")[1]
                                      ELSE job.current_epoch,
             total_epochs         |-> job.total_epochs,
             progress_percentage  |-> IF CachedValue("progress") # Null
                                      THEN CachedValue("progress")[1]
                                      ELSE job.progress_percentage,
             training_loss        |-> job.training_loss,
             validation_loss      |-> job.validation_loss,
             accuracy             |-> job.accuracy,
             learning_rate        |-> CachedValue("learning_rate"),
             estimated_completion |-> job.estimated_completion,
             detailed_metrics     |-> CachedValue("detailed_metrics") ]

\* get_training_progress: the job row, with learning_rate and
\* detailed_metrics of the cached payload when there is one.
get_training_progress(store, c, id) ==
  IF id \notin DOMAIN store
  THEN [ status_code |-> 404 ]
  ELSE LET job == store[id]
           cached_progress == cache_get(c, id)
           CachedValue(key) ==
             IF cached_progress # Null /\ key \in DOMAIN cached_progress[1]
             THEN Some(cached_progress[1][key]) ELSE Null
       IN  [ status_code          |-> 200,
             status               |-> job.status,
             current_epoch        |-> job.current_epoch,
             total_epochs         |-> job.total_epochs,
             progress_percentage  |-> job.progress_percentage,
             training_loss        |-> job.training_loss,
             validation_loss      |-> job.validation_loss,
             accuracy             |-> job.accuracy,
             learning_rate        |-> CachedValue("learning_rate"),
             estimated_completion |-> job.estimated_completion,
             detailed_metrics     |-> CachedValue("detailed_metrics") ]

\* A client polls the progress; cache_get can raise (Redis unreachable), which
\* the handler turns into a 500.
ApiGetProgress ==
  /\ response = Null
  /\ \/ response' = Some(get_training_progress(jobs, cache, JobId))
     \/ /\ JobId \in DOMAIN jobs
        /\ response' = Some([ status_code |-> 500 ])
  /\ UNCHANGED <<env, delete_call, default_calls, jobs, datasets, models, cache, api, task, pc, dataset_config,
                 trainer, progress, err, result, cancel>>

\* The client receives the response.
ResponseReceived ==
  /\ response # Null
  /\ response' = Null
  /\ UNCHANGED <<env, delete_call, default_calls, jobs, datasets, models, cache, api, task, pc, dataset_config,
                 trainer, progress, err, result, cancel>>

\* The TTL of the job's cache entry runs out (SETEX).
CacheExpire ==
  /\ JobId \in DOMAIN cache
  /\ cache' = [k \in DOMAIN cache \ {JobId} |-> cache[k]]
  /\ UNCHANGED <<env, delete_call, default_calls, response, jobs, datasets, models, api, task, pc, dataset_config,
                 trainer, progress, err, result, cancel>>

(***************************************************************************)
(* Next-state relations and specifications                                 *)
(***************************************************************************)

Next ==
  \/ SetDatasetStatus
  \/ DeleteDataset
  \/ ApiCreateJob
  \/ ApiSubmitTask
  \/ ApiStoreTaskId
  \/ \E r \in Runs :
       \/ RunStart(r)
       \/ RunGetDataset(r)
       \/ RunTrainEpoch(r)
       \/ RunTrainRaises(r)
       \/ RunTrainReturns(r)
       \/ RunCreateModel(r)
       \/ RunCreateModelRaises(r)
       \/ RunCompletion(r)
       \/ RunCompletionRaises(r)
       \/ RunFail(r)
       \/ RunReturn(r)
       \/ ProgressUpdate(r)
       \/ RunTerminated(r)
  \/ \E c \in Cancels :
       \/ CancelRequest(c)
       \/ CancelTask(c)

Spec == Init /\ [][Next]_vars

SpecRedelivery == InitRedelivery /\ [][Next]_vars

\* The job with a cache whose entries expire.
NextProgress ==
  \/ Next
  \/ CacheExpire

SpecProgress == InitProgress /\ [][NextProgress]_vars

\* The same with clients that poll the job's progress.
NextPoll ==
  \/ NextProgress
  \/ ApiGetProgress
  \/ ResponseReceived

SpecPoll == InitPoll /\ [][NextPoll]_vars

\* A job on any dataset, run without cancel requests, dataset changes or
\* faults of the infrastructure.
NextDataset ==
  \/ ApiCreateJob
  \/ ApiSubmitTask
  \/ ApiStoreTaskId
  \/ \E r \in Runs :
       \/ RunStart(r)
       \/ RunGetDataset(r)
       \/ RunTrainEpoch(r)
       \/ RunTrainNoData(r)
       \/ RunValidateNoData(r)
       \/ RunTrainReturns(r)
       \/ RunCreateModel(r)
       \/ RunCompletion(r)
       \/ RunFail(r)
       \/ RunReturn(r)
       \/ ProgressUpdate(r)

SpecDataset == InitDataset /\ [][NextDataset]_vars

\* The steps of the run itself for a job whose epochs measure any of
\* TrainerLosses and whose training may raise, without cancel requests; the
\* progress update tasks stay queued on the loop until it closes (they are
\* applied under SpecProgress).
NextTrainer ==
  \/ ApiCreateJob
  \/ ApiSubmitTask
  \/ ApiStoreTaskId
  \/ \E r \in Runs :
       \/ RunStart(r)
       \/ RunGetDataset(r)
       \/ RunTrainEpoch(r)
       \/ RunTrainRaises(r)
       \/ RunTrainReturns(r)
       \/ RunCreateModel(r)
       \/ RunCompletion(r)
       \/ RunFail(r)
       \/ RunReturn(r)

SpecTrainer == InitTrainer /\ [][NextTrainer]_vars

\* The dataset requests that change the files of the dataset, and the job
\* request and the delivery that read it and split it.
NextFiles ==
  \/ /\ DatasetStillRead
     /\ \/ CreateDataset
        \/ AddFiles
        \/ RemoveFiles
  \/ ApiCreateJob
  \/ ApiSubmitTask
  \/ ApiStoreTaskId
  \/ \E r \in Runs :
       \/ RunStart(r)
       \/ RunGetDataset(r)

SpecFiles == InitFiles /\ [][NextFiles]_vars

\* The model registry: models are created and deleted while set-default
\* requests run concurrently.
NextDefault ==
  \/ \E id \in ModelIds :
       \/ CreateModel(id)
       \/ DeleteModel(id)
  \/ \E c \in DefaultCalls :
       \/ \E id \in ModelIds : SetDefaultRequest(c, id)
       \/ SetDefaultUnset(c)
       \/ SetDefaultSet(c)
       \/ SetDefaultCommit(c)

SpecDefault == InitDefault /\ [][NextDefault]_vars

\* One delivery of a one-epoch job, no cancel request; a client asks to
\* delete the job.
InitDelete ==
  /\ InitStores
  /\ datasets = [d \in {DatasetId} |-> LabelledDataset(MaxFiles)]
  /\ training_config = [ epochs |-> 1, patience |-> Patience ]
  /\ deliveries = 1
  /\ cancels = 0
  /\ val_losses = ValLosses

\* The job's request and run, and a delete request at any moment.
NextDelete ==
  \/ ApiCreateJob
  \/ ApiSubmitTask
  \/ ApiStoreTaskId
  \/ \E r \in Runs :
       \/ RunStart(r)
       \/ RunGetDataset(r)
       \/ RunTrainEpoch(r)
       \/ RunTrainReturns(r)
       \/ RunCreateModel(r)
       \/ RunCompletion(r)
       \/ RunReturn(r)
       \/ ProgressUpdate(r)
  \/ DeleteJobRequest
  \/ DeleteJob

SpecDelete == InitDelete /\ [][NextDelete]_vars

\* One delivery of a job of up to MaxTrainerEpochs epochs, and one cancel
\* request.
InitLive ==
  /\ InitStores
  /\ datasets = [d \in {DatasetId} |-> LabelledDataset(MaxFiles)]
  /\ training_config \in [ epochs : 1 .. MaxTrainerEpochs, patience : 1 .. Patience ]
  /\ deliveries = 1
  /\ cancels = 1
  /\ val_losses = TrainerLosses

\* A step of train_cad_model_task once the worker has started it.
RunStep(r) ==
  \/ RunGetDataset(r)
  \/ RunTrainEpoch(r)
  \/ RunTrainRaises(r)
  \/ RunTrainReturns(r)
  \/ RunCreateModel(r)
  \/ RunCompletion(r)
  \/ RunFail(r)
  \/ RunReturn(r)

\* The job while the worker is not terminated and the record store accepts
\* every write: the dataset may change, training may raise, a cancel request
\* may arrive (it revokes a message that has not been delivered).
NextLive ==
  \/ SetDatasetStatus
  \/ DeleteDataset
  \/ ApiCreateJob
  \/ ApiSubmitTask
  \/ ApiStoreTaskId
  \/ \E r \in Runs :
       \/ RunStart(r)
       \/ RunStep(r)
  \/ \E c \in Cancels :
       \/ CancelRequest(c)
       \/ CancelTask(c)

\* The worker goes on executing a task it has started: the task body is
\* sequential code that awaits nothing but its own calls.
SpecLive == InitLive /\ [][NextLive]_vars /\ \A r \in Runs : WF_vars(RunStep(r))

(***************************************************************************)
(* Properties                                                              *)
(***************************************************************************)

JobExists == JobId \in DOMAIN jobs

Status == jobs[JobId].status

\* Delivery r is executing train_cad_model_task.
InProgress(r) ==
  pc[r] \in {"get_dataset", "train", "create_model", "completion", "failing", "closing"}

\* A step in which the event loop of delivery r applies one progress update.
ProgressApplied(r) ==
  /\ pc'[r] = pc[r]
  /\ progress'[r] # progress[r]
  /\ progress'[r] \subseteq progress[r]

\* C1: terminal states are absorbing: once the job's status is completed,
\* failed or cancelled, no step changes it.
C1_TerminalAbsorbing ==
  [][(JobExists /\ Status \in Terminal) => jobs'[JobId].status = Status]_vars

\* C2: no AIModel is ever created for a failed job: in every state no AIModel
\* row references a job whose status is failed.
C2_NoModelForFailedJob ==
  \A m \in models :
    m.training_job_id \in DOMAIN jobs => jobs[m.training_job_id].status # "failed"

\* C3: at most one AIModel row references the job, for any sequence of
\* deliveries of its message and of cancels.
C3_OneModelPerJob ==
  Cardinality({m \in models : m.training_job_id = JobId}) <= 1

\* C4: a delivery that starts while another delivery of the same job is in
\* progress and the status is already running fails fast (it returns a
\* concurrent-run error at once) and changes neither the job record, the
\* progress cache nor the model store.
C4_SecondRunFailsFast ==
  [][\A r \in Runs :
       ( /\ pc[r] = "undelivered" /\ pc'[r] # "undelivered"
         /\ JobExists /\ Status = "running"
         /\ \E q \in Runs \ {r} : InProgress(q) )
       => ( /\ jobs' = jobs /\ cache' = cache /\ models' = models
            /\ pc'[r] = "done"
            /\ result'[r] # Null /\ ~result'[r][1].success )]_vars

\* The two messages of the dataset check.
DatasetErrors ==
  { Some("Dataset D1 not found"), Some("Dataset D1 is not ready for training") }

\* C5: a job whose dataset is missing or not ready when the run picks it up
\* never has status running: when the dataset check has just raised, the job
\* is not running.
C5_NotReadyNeverRunning ==
  \A r \in Runs :
    (pc[r] = "failing" /\ err[r] \in DatasetErrors /\ JobExists) => Status # "running"

\* C6: cancel is accepted only while the status is queued or running: when the
\* cancel task writes cancelled, the status at that moment is queued or
\* running; a cancel request for a job in a terminal status is rejected and
\* changes neither the job record nor the cache, and revokes nothing.
C6_CancelOnlyQueuedOrRunning ==
  [][\A c \in Cancels :
       /\ (cancel[c].at = "scheduled" /\ cancel'[c].at = "done")
            => Status \in {"queued", "running"}
       /\ (cancel[c].at = "idle" /\ cancel'[c].at # "idle" /\ Status \in Terminal)
            => ( /\ cancel'[c].at = "rejected"
                 /\ jobs' = jobs /\ cache' = cache /\ task' = task )]_vars

\* C7: when cancel was called while the status was queued, once its task has
\* run the job is cancelled and stays cancelled, and no AIModel references it.
C7_CancelWhileQueued ==
  \A c \in Cancels :
    (cancel[c].at = "done" /\ cancel[c].status = Some("queued"))
      => ( /\ Status = "cancelled"
           /\ \A m \in models : m.training_job_id # JobId )

\* C8: after the cancel task has written cancelled, no progress update of the
\* job is applied any more, neither to the job record nor to the cache.
C8_NoProgressAfterCancel ==
  [][(\E c \in Cancels : cancel[c].at = "done")
       => \A r \in Runs : ~ProgressApplied(r)]_vars

\* C9: once the job's status is cancelled, the epoch loop starts no further
\* epoch.
C9_NoEpochAfterCancel ==
  [][(JobExists /\ Status = "cancelled")
       => \A r \in Runs : trainer'[r].epochs_run <= trainer[r].epochs_run]_vars

\* C10: in every state of the job record, model_path is non-null if and only
\* if status = completed.
C10_ModelPathIffCompleted ==
  JobExists => (jobs[JobId].model_path # Null <=> Status = "completed")

\* C11: error_message is non-null if and only if status = failed; every failed
\* job exposes a non-null error_message, whatever the exception was.
C11_ErrorMessageIffFailed ==
  JobExists => (jobs[JobId].error_message # Null <=> Status = "failed")

\* C12: the values of current_epoch written to the job record by progress
\* updates are non-decreasing in the order in which the updates are applied.
C12_CurrentEpochMonotonic ==
  [][\A r \in Runs : (JobExists /\ ProgressApplied(r))
       => jobs'[JobId].current_epoch >= jobs[JobId].current_epoch]_vars

\* The job's progress cache entry holds a notification of the trainer.
CachedEpoch(c) == JobId \in DOMAIN c /\ "epoch" \in DOMAIN c[JobId]

\* C13: the progress cache never regresses: a notification with a lower epoch
\* that reaches the cache after one with a higher epoch is discarded.
C13_CacheNeverRegresses ==
  [][(CachedEpoch(cache) /\ CachedEpoch(cache'))
       => cache'[JobId].epoch >= cache[JobId].epoch]_vars

\* C14: while the job is running, every write of progress_percentage is
\* strictly greater than the value it replaces.
C14_ProgressStrictlyIncreasing ==
  [][\A r \in Runs :
       (JobExists /\ Status = "running" /\ ProgressApplied(r))
         => jobs'[JobId].progress_percentage > jobs[JobId].progress_percentage]_vars

\* C15: whenever status = completed, progress_percentage is 100 and the
\* metrics are the final values returned by the trainer (no progress update
\* is applied after the completion write).
C15_CompletedHoldsFinalValues ==
  (JobExists /\ Status = "completed")
    => /\ jobs[JobId].progress_percentage = 100
       /\ \E epoch \in 0 .. MaxEpochs - 1 :
            jobs[JobId].training_loss = Some(<<"train", epoch>>)
       /\ jobs[JobId].validation_loss = Some(<<"final">>)
       /\ jobs[JobId].accuracy = Some(<<"final">>)
       /\ jobs[JobId].precision = Some(<<"final">>)
       /\ jobs[JobId].recall = Some(<<"final">>)
       /\ jobs[JobId].f1_score = Some(<<"final">>)

C17_CacheWriteFireAndForget ==
  [][\A r \in Runs : \A progress_data \in progress[r] :
       (ProgressApplied(r) /\ progress_data \notin progress'[r] /\ cache' = cache)
         => /\ jobs' = _update_training_progress(jobs, JobId, progress_data)
            /\ progress'[r] = progress[r] \ {progress_data}
            /\ pc' = pc /\ trainer' = trainer
            /\ err' = err /\ result' = result]_vars

\* The last update applied to the job row did not reach the cache: the cache
\* holds a notification of another epoch than the row.
C17_Witness ==
  /\ JobExists
  /\ CachedEpoch(cache)
  /\ jobs[JobId].current_epoch # cache[JobId].epoch
  /\ \E r \in Runs : LoopRunsTasks(r)

\* A step in which GET /jobs/{id}/progress answers 200.
ProgressRead == response = Null /\ response' # Null /\ response'[1].status_code = 200

\* C18: the progress read does not depend on the cache for correctness:
\* whatever the cache holds for the job (nothing, a stale notification, the
\* cancel marker), the response's status, current_epoch, total_epochs,
\* progress_percentage, losses and accuracy are the job row's; learning_rate
\* and detailed_metrics are the cached payload's, null when the key is cold.
C18_ProgressReadIsDurable ==
  [][ProgressRead
       => LET body == response'[1]
              job  == jobs[JobId]
          IN  /\ body.status = job.status
              /\ body.current_epoch = job.current_epoch
              /\ body.total_epochs = job.total_epochs
              /\ body.progress_percentage = job.progress_percentage
              /\ body.training_loss = job.training_loss
              /\ body.validation_loss = job.validation_loss
              /\ body.accuracy = job.accuracy
              /\ (JobId \notin DOMAIN cache)
                   => body.learning_rate = Null /\ body.detailed_metrics = Null
              /\ (JobId \in DOMAIN cache)
                   => /\ body.learning_rate =
                           IF "learning_rate" \in DOMAIN cache[JobId]
                           THEN Some(cache[JobId].learning_rate) ELSE Null
                      /\ body.detailed_metrics =
                           IF "detailed_metrics" \in DOMAIN cache[JobId]
                           THEN Some(cache[JobId].detailed_metrics) ELSE Null]_vars

\* A read answered from the job row while the cache holds a notification of
\* an epoch whose percentage the row no longer has.
C18_Witness ==
  /\ response # Null
  /\ response[1].status_code = 200
  /\ CachedEpoch(cache)
  /\ "progress" \in DOMAIN cache[JobId]
  /\ JobExists
  /\ response[1].progress_percentage = jobs[JobId].progress_percentage
  /\ response[1].progress_percentage # cache[JobId].progress
  /\ response[1].learning_rate # Null

\* floor(0.8 * n)
Floor80(n) == CHOOSE k \in 0 .. n : 10 * k <= 8 * n /\ 8 * n < 10 * (k + 1)

\* The label mapping lbl is the dataset's labels restricted to the ids of files.
LabelsRestrictedTo(lbl, labels, files) ==
  /\ DOMAIN lbl = {fid \in Range(files) : fid \in DOMAIN labels}
  /\ \A fid \in DOMAIN lbl : lbl[fid] = labels[fid]

\* C19: dataset preparation partitions file_ids in stored order: the training
\* split is the first floor(0.8 * n) ids, the validation split the remaining
\* ids, their concatenation is file_ids, each split's label mapping is the
\* dataset's labels restricted to the split (ids without a label dropped), and
\* the Dataset row is not modified.
C19_PrepareIsOrderedPartition ==
  [][\A r \in Runs : (pc[r] = "get_dataset" /\ pc'[r] = "train")
       => LET dataset == datasets[DatasetId]
              config  == dataset_config'[r][1]
              k       == Floor80(Len(dataset.file_ids))
          IN  /\ datasets' = datasets
              /\ Len(config.train_files) = k
              /\ \A i \in 1 .. k : config.train_files[i] = dataset.file_ids[i]
              /\ config.train_files \o config.val_files = dataset.file_ids
              /\ LabelsRestrictedTo(config.train_labels, dataset.labels, config.train_files)
              /\ LabelsRestrictedTo(config.val_labels, dataset.labels, config.val_files)]_vars

\* The spec's example: f1..f10 labelled 5/5 gives train f1..f8, val f9..f10.
C19_Witness ==
  /\ DatasetId \in DOMAIN datasets
  /\ datasets[DatasetId].file_ids = <<1, 2, 3, 4, 5, 6, 7, 8, 9, 10>>
  /\ \E r \in Runs :
       /\ pc[r] = "train"
       /\ dataset_config[r] # Null
       /\ dataset_config[r][1].train_files = <<1, 2, 3, 4, 5, 6, 7, 8>>
       /\ dataset_config[r][1].val_files = <<9, 10>>
       /\ DOMAIN dataset_config[r][1].train_labels = 1 .. 8
       /\ DOMAIN dataset_config[r][1].val_labels = {9, 10}

\* The training split forms no batch, or fewer than two classes are present.
Untrainable(config) ==
  \/ TrainBatches(config) = 0
  \/ Cardinality(Range(config.train_labels) \cup Range(config.val_labels)) < 2

\* C20: if the training split has too few labelled records to form one batch
\* or fewer than two classes are present, the run fails the job before any
\* epoch runs, and no AIModel is created.
C20_UntrainableFailsBeforeEpoch ==
  \A r \in Runs :
    (dataset_config[r] # Null /\ Untrainable(dataset_config[r][1]))
      => /\ trainer[r].epochs_run = 0
         /\ pc[r] \in {"train", "failing", "closing"}
         /\ models = {}
         /\ (pc[r] = "closing" /\ JobExists) => Status = "failed"

\* Epoch i (1-based in the history h) measured a loss below every loss
\* before it: the lowest so far, at its first occurrence.
ImprovedAt(h, i) == h[i] # NaN /\ \A j \in 1 .. (i - 1) : h[j] = NaN \/ h[i] < h[j]

\* Some epoch of the history measured a (finite) loss.
HasBestEpoch(h) == \E i \in 1 .. Len(h) : ImprovedAt(h, i)

\* The 0-based epoch b with the lowest validation loss so far.
BestEpoch(h) == (CHOOSE i \in 1 .. Len(h) : ImprovedAt(h, i) /\ \A j \in (i + 1) .. Len(h) : ~ImprovedAt(h, j)) - 1

\* The 0-based epoch the loop ran last.
LastEpoch(t) == t.epochs_run - 1

TrainReturned(r) == <<"final_model">> \in DOMAIN trainer[r].files

\* C22: once the loop has exited, the live model's parameters and the weights
\* in the final artifact are the parameters the model had at the end of the
\* best epoch (lowest validation loss, first occurrence).
C22_FinalModelIsBestEpochSnapshot ==
  \A r \in Runs :
    LET t == trainer[r]
        h == t.training_history.val_loss
    IN  (TrainReturned(r) /\ HasBestEpoch(h))
          => /\ t.model_state = BestEpoch(h) + 1
             /\ t.files[<<"final_model">>].model_state_dict = BestEpoch(h) + 1

\* Every epoch of the history measured a finite loss below the one before.
StrictlyDecreasing(h) ==
  \A i \in 1 .. Len(h) : h[i] # NaN /\ (i > 1 => h[i] < h[i - 1])

\* The AIModel rows that reference the job.
ModelsOfJob == { m \in models : m.training_job_id = JobId }

\* C23: while the validation loss strictly decreases every epoch, the
\* early-stopping counter is 0 and the loop goes on up to the configured N
\* epochs; when train has returned it ran exactly N epochs and the final model
\* is the last epoch's snapshot; and when the run of N such epochs has written
\* its outcome the job is completed, exactly one AIModel references the job, and the result is
\* success=true with the job's id and that model's id.
C23_DecreasingLossRunsAllEpochs ==
  \A r \in Runs :
    LET t == trainer[r]
        h == t.training_history.val_loss
    IN  (dataset_config[r] # Null /\ StrictlyDecreasing(h))
          => /\ t.early_stopping_counter = 0
             /\ t.epochs_run < t.epochs => (pc[r] = "train" => LoopContinues(t))
             /\ TrainReturned(r)
                  => /\ t.epochs_run = t.epochs
                     /\ t.model_state = t.epochs
                     /\ t.files[<<"final_model">>].model_state_dict = t.epochs
             /\ (pc[r] = "closing" /\ t.epochs_run = t.epochs)
                  => /\ Status = "completed"
                     /\ Cardinality(ModelsOfJob) = 1
                     /\ result[r] # Null
                     /\ result[r][1].success
                     /\ result[r][1].training_job_id = JobId
                     /\ \E m \in ModelsOfJob : result[r][1].model_id = m.id

\* A run of MaxTrainerEpochs epochs, each with a lower loss, has completed.
C23_Witness ==
  \E r \in Runs :
    /\ pc[r] = "closing"
    /\ StrictlyDecreasing(trainer[r].training_history.val_loss)
    /\ Len(trainer[r].training_history.val_loss) = MaxTrainerEpochs
    /\ Status = "completed"

\* C24: a nan validation loss is fatal: no epoch runs after the epoch that
\* measured it, the run goes to its failure handling, no AIModel is created, and
\* the run's outcome is status failed.
C24_NaNLossIsFatal ==
  \A r \in Runs :
    LET h == trainer[r].training_history.val_loss
    IN  (\E i \in 1 .. Len(h) : h[i] = NaN)
          => /\ \A i \in 1 .. (Len(h) - 1) : h[i] # NaN
             /\ pc[r] \in {"train", "failing", "closing"}
             /\ ModelsOfJob = {}
             /\ pc[r] = "closing" => Status = "failed"

\* The files of a kind in the storage directory of the trainer's job.
Artifacts(t, kind) == { f \in DOMAIN t.files : f[1] = kind }

\* C29: the job's storage directory holds at most one 'best' checkpoint
\* artifact and at most one 'final' artifact, and the epoch-numbered
\* checkpoints are append-only: while the run's trainer works, the checkpoint
\* of an epoch stays as it was written.
C29_SingleBestAndFinalArtifact ==
  [][\A r \in Runs :
       /\ Cardinality(Artifacts(trainer'[r], "checkpoint_epoch_best")) <= 1
       /\ Cardinality(Artifacts(trainer'[r], "final_model")) <= 1
       /\ trainer'[r] # NoTrainer
            => \A f \in Artifacts(trainer[r], "checkpoint_epoch") :
                 /\ f \in DOMAIN trainer'[r].files
                 /\ trainer'[r].files[f] = trainer[r].files[f]]_vars

\* C27: a run whose dataset check raised (dataset missing or not ready) never
\* has a trainer, so runs no epoch, and creates no AIModel; the step in which it
\* handles the exception writes status failed and returns success=false with
\* the error text that names the dataset; and once it has returned it does not
\* run again.
C27_DatasetFailureFailsWithoutTraining ==
  [][\A r \in Runs :
       err[r] \in DatasetErrors
         => /\ pc[r] \in {"failing", "closing", "done", "killed"}
            /\ trainer[r] = NoTrainer /\ trainer'[r] = NoTrainer
            /\ dataset_config'[r] = Null
            /\ \A m \in models' : m.id # r
            /\ (pc[r] = "failing" /\ pc'[r] = "closing")
                 => /\ Status' = "failed"
                    /\ result'[r] = Some([ success         |-> FALSE,
                                           training_job_id |-> JobId,
                                           error           |-> err[r][1] ])
            /\ pc[r] = "done" => /\ pc'[r] = "done"
                                 /\ result'[r] = result[r]]_vars

\* A run that found no dataset has returned its failure result.
C27_Witness ==
  \E r \in Runs :
    /\ pc[r] = "done"
    /\ err[r] = Some("Dataset D1 not found")
    /\ result[r] # Null
    /\ ~result[r][1].success
    /\ Status = "failed"

\* C28: when a run has trained all N configured epochs and completed the job,
\* the progress exposed for the job reports status completed and epoch N.
C28_FinalProgressReportsAllEpochs ==
  \A r \in Runs :
    ( /\ pc[r] = "closing"
      /\ result[r] # Null /\ result[r][1].success
      /\ trainer[r].epochs_run = trainer[r].epochs
      /\ Status = "completed" )
      => LET final_progress == get_training_progress(jobs, cache, JobId)
         IN  /\ final_progress.status = "completed"
             /\ final_progress.current_epoch = trainer[r].epochs

\* A fresh recomputation of the distribution: for each class, the number of
\* distinct stored file ids that have that label.
RecomputedDistribution(dataset) ==
  LET labelled == Range(dataset.file_ids) \cap DOMAIN dataset.labels
  IN  [ key \in { str(dataset.labels[fid]) : fid \in labelled } |->
          Cardinality({ fid \in labelled : str(dataset.labels[fid]) = key }) ]

\* C25: after every sequence of create, add-files and remove-files requests
\* the stored label_distribution equals the fresh recomputation from the
\* stored file_ids and labels.
C25_LabelDistributionIsRecomputation ==
  \A d \in DOMAIN datasets :
    datasets[d].label_distribution = RecomputedDistribution(datasets[d])

\* The entries of a sequence without the repeats of an earlier entry.
FirstOccurrences(seq) ==
  LET keep == { i \in DOMAIN seq : \A j \in 1 .. (i - 1) : seq[j] # seq[i] }
      F[n \in 0 .. Len(seq)] ==
        IF n = 0 THEN <<>>
        ELSE IF n \in keep THEN Append(F[n - 1], seq[n]) ELSE F[n - 1]
  IN  F[Len(seq)]

\* C30: after add-files, file_ids contains every previously stored id and
\* every added id exactly once, file_count is its length, and the ids that were
\* already stored keep their relative order.
C30_AddFilesMergesInOrder ==
  [][\A file_ids \in RequestFileIds : \A labels \in RequestLabels(file_ids) :
       add_files_to_dataset(file_ids, labels)
         => LET stored == datasets[DatasetId].file_ids
                updated == datasets'[DatasetId].file_ids
            IN  /\ Range(updated) = Range(stored) \cup Range(file_ids)
                /\ Cardinality(Range(updated)) = Len(updated)
                /\ datasets'[DatasetId].file_count = Len(updated)
                /\ SelectSeq(updated, LAMBDA fid : fid \in Range(stored))
                     = FirstOccurrences(stored)]_vars

\* C26: in every reachable state at most one AIModel of a model_type has
\* is_default = true.
C26_AtMostOneDefaultPerType ==
  \A model_type \in ModelTypes :
    Cardinality({ m \in models : m.model_type = model_type /\ m.is_default }) <= 1

\* The label mapping of a split has exactly the split's files as keys.
LabelsCoverExactly(labels, files) == DOMAIN labels = Range(files)

\* C31: every file id stored in a dataset is a key of the dataset's labels,
\* and in every split a delivery has built from the dataset the training
\* labels have exactly the training files as keys and the validation labels
\* exactly the validation files.
C31_StoredFilesAreLabelled ==
  /\ \A d \in DOMAIN datasets : Range(datasets[d].file_ids) \subseteq DOMAIN datasets[d].labels
  /\ \A r \in Runs : dataset_config[r] # Null =>
       /\ LabelsCoverExactly(dataset_config[r][1].train_labels, dataset_config[r][1].train_files)
       /\ LabelsCoverExactly(dataset_config[r][1].val_labels, dataset_config[r][1].val_files)

\* A delivery has split a dataset whose labels name a file the dataset does
\* not hold, into a training and a validation file.
C31_Witness ==
  \E r \in Runs :
    /\ dataset_config[r] # Null
    /\ dataset_config[r][1].train_files # <<>>
    /\ dataset_config[r][1].val_files # <<>>
    /\ DatasetId \in DOMAIN datasets
    /\ DOMAIN datasets[DatasetId].labels # Range(datasets[DatasetId].file_ids)

\* No file id is in both sequences.
Disjoint(files, others) == Range(files) \cap Range(others) = {}

\* C39: the training files and the validation files of the split of every
\* stored dataset, and of every split a delivery has built, have no file id
\* in common.
C39_SplitsAreDisjoint ==
  /\ \A d \in DOMAIN datasets :
       Disjoint(_prepare_dataset_config(datasets[d]).train_files,
                _prepare_dataset_config(datasets[d]).val_files)
  /\ \A r \in Runs : dataset_config[r] # Null =>
       Disjoint(dataset_config[r][1].train_files, dataset_config[r][1].val_files)

\* The lowest of the losses of the history that are numbers (nan compares
\* with no loss).
MinLoss(h) == CHOOSE loss \in Range(h) \ {NaN} : \A other \in Range(h) \ {NaN} : loss <= other

FinishedEpochs(t) == 0 .. (t.epochs_run - 1)

\* C33: the storage directory holds, for every finished epoch and for no
\* other, one epoch-numbered checkpoint, which carries the epoch's number; it
\* holds a best checkpoint of an epoch, carrying the same number, exactly for
\* the finished epochs whose validation loss was strictly below every loss
\* before: an epoch writes one file or, when it improved, two.
C33_OneCheckpointPerEpochAndBestIffImproved ==
  \A r \in Runs :
    LET t == trainer[r]
        h == t.training_history.val_loss
    IN  /\ Artifacts(t, "checkpoint_epoch") = { <<"checkpoint_epoch", e>> : e \in FinishedEpochs(t) }
        /\ Artifacts(t, "checkpoint_epoch_best") =
             { <<"checkpoint_epoch_best", e>> : e \in { x \in FinishedEpochs(t) : ImprovedAt(h, x + 1) } }
        /\ \A f \in Artifacts(t, "checkpoint_epoch") \cup Artifacts(t, "checkpoint_epoch_best") :
             t.files[f].epoch = f[2]

\* Two finished epochs: the first improved and has a best checkpoint, the
\* second did not improve and has none.
C33_Witness ==
  \E r \in Runs :
    LET t == trainer[r]
    IN  /\ t.epochs_run = 2
        /\ <<"checkpoint_epoch_best", 0>> \in DOMAIN t.files
        /\ <<"checkpoint_epoch", 1>> \in DOMAIN t.files
        /\ <<"checkpoint_epoch_best", 1>> \notin DOMAIN t.files

\* The sequence s is a prefix of the sequence t.
IsPrefix(s, t) == Len(s) <= Len(t) /\ \A i \in 1 .. Len(s) : t[i] = s[i]

\* Training of delivery r aborted with an exception in the epoch after its
\* last finished one.
TrainingAborted(r) == pc[r] = "failing" /\ trainer[r] # NoTrainer

\* C34: the training history is append-only with one record per finished
\* epoch: each of the five series has as many entries as epochs have finished
\* (e + 1 after the 0-based epoch e), a step of the trainer keeps the entries a
\* series had; and when training aborts in epoch k >= 1 the checkpoint of
\* epoch k - 1 in the storage directory holds the history of the k finished
\* epochs.
C34_HistoryAppendOnlyAndCheckpointed ==
  [][\A r \in Runs :
       LET t == trainer[r]
           u == trainer'[r]
       IN  /\ \A series \in Series : Len(u.training_history[series]) = u.epochs_run
           /\ u # NoTrainer =>
                \A series \in Series : IsPrefix(t.training_history[series], u.training_history[series])
           /\ (TrainingAborted(r))' /\ u.epochs_run >= 1 =>
                /\ <<"checkpoint_epoch", u.epochs_run - 1>> \in DOMAIN u.files
                /\ u.files[<<"checkpoint_epoch", u.epochs_run - 1>>].training_history = u.training_history
                /\ \A series \in Series :
                     Len(u.files[<<"checkpoint_epoch", u.epochs_run - 1>>].training_history[series]) = u.epochs_run]_vars

\* Training aborted in its third epoch: two epochs had finished.
C34_Witness ==
  \E r \in Runs :
    /\ TrainingAborted(r)
    /\ err[r] # Null
    /\ trainer[r].epochs_run = 2
    /\ Len(trainer[r].files[<<"checkpoint_epoch", 1>>].training_history.val_loss) = 2

\* C35: the epoch loop never runs more than the configured epochs and goes on
\* no further once the early-stopping counter has reached the patience; it
\* always ends; and the job of every run the worker has started eventually
\* has a terminal status (completed, failed or cancelled).
C35_LoopEndsAndJobReachesTerminalStatus ==
  /\ [](\A r \in Runs :
          /\ trainer[r].epochs_run <= trainer[r].epochs
          /\ trainer[r].epochs_run >= 1 /\ trainer[r].early_stopping_counter >= trainer[r].patience
               => ~LoopContinues(trainer[r]))
  /\ \A r \in Runs : (pc[r] = "train") ~> (pc[r] # "train")
  /\ \A r \in Runs : (pc[r] # "undelivered") ~> (JobId \in DOMAIN jobs /\ Status \in Terminal)

\* A run has trained all its epochs and returned, and its job is completed.
C35_Witness ==
  \E r \in Runs :
    /\ pc[r] = "done"
    /\ result[r] # Null
    /\ result[r][1].success
    /\ Status = "completed"
    /\ training_config.epochs = MaxTrainerEpochs

\* The columns of a job row a progress update may write (updated_at, which it
\* also stamps, is not part of the row here), and all others.
ProgressColumns ==
  {"current_epoch", "progress_percentage", "training_loss", "validation_loss", "accuracy",
   "precision", "recall", "f1_score"}
FrameColumns ==
  {"status", "dataset_id", "celery_task_id", "total_epochs", "started_at", "estimated_completion",
   "completed_at", "model_path", "error_message"}

\* C36: a step that applies a progress update leaves every column of the job
\* row other than the progress columns as it was (status, total_epochs,
\* started_at, estimated_completion, completed_at, model_path, error_message)
\* and removes or adds no row; estimated_completion is written only by the
\* step in which the job becomes running, together with started_at, and keeps
\* that value from then on.
C36_ProgressUpdateFrame ==
  [][/\ \A r \in Runs :
          ProgressApplied(r) =>
            /\ DOMAIN jobs' = DOMAIN jobs
            /\ \A id \in DOMAIN jobs :
                 /\ DOMAIN jobs'[id] = ProgressColumns \cup FrameColumns
                 /\ \A column \in FrameColumns : jobs'[id][column] = jobs[id][column]
      /\ \A id \in DOMAIN jobs \cap DOMAIN jobs' :
           /\ jobs'[id].estimated_completion # jobs[id].estimated_completion
                => /\ jobs[id].estimated_completion = Null
                   /\ jobs[id].status # "running" /\ jobs'[id].status = "running"
                   /\ jobs'[id].estimated_completion = jobs'[id].started_at]_vars

\* An update was applied to the completed job: the row holds the validation
\* loss of a notification with the columns the completion wrote.
C36_Witness ==
  /\ JobId \in DOMAIN jobs
  /\ Status = "completed"
  /\ jobs[JobId].validation_loss \in { Some(<<"val", e>>) : e \in 0 .. MaxEpochs }
  /\ jobs[JobId].model_path # Null
  /\ jobs[JobId].completed_at # Null
  /\ jobs[JobId].estimated_completion # Null

\* The metrics an epoch notification reports to the job row.
ReportedMetrics == {"training_loss", "validation_loss", "accuracy"}

\* C37: once the job row holds the metrics of an epoch notification, no step
\* sets training_loss, validation_loss or accuracy of the row back to null.
C37_ReportedMetricsStay ==
  [][\A id \in DOMAIN jobs \cap DOMAIN jobs' :
       (\A column \in ReportedMetrics : jobs[id][column] # Null)
         => \A column \in ReportedMetrics : jobs'[id][column] # Null]_vars

\* The client's delete request has removed the job row.
JobDeleted == delete_call = "deleted"

\* C38: the step that removes the job row finds the job in another status
\* than running, and once the row is removed no delivery trains an epoch or
\* stores an AIModel for the job.
C38_NoDeleteWhileTrainingCanRun ==
  [][/\ (JobId \in DOMAIN jobs /\ JobId \notin DOMAIN jobs') => jobs[JobId].status # "running"
     /\ JobDeleted =>
          /\ \A r \in Runs : trainer'[r].epochs_run <= trainer[r].epochs_run
          /\ { m \in models' : m.training_job_id = JobId } \subseteq models]_vars

====
